---- MODULE Spec2Model ----
(***************************************************************************)
(* A model of catobase (src/catostruct.go): category listings, the         *)
(* append-only registry ".catodb", registration (single and bulk) and the  *)
(* query engine.                                                           *)
(*                                                                         *)
(* Strings are sequences of one-character strings, files are byte          *)
(* sequences: a write appends bytes, a read goes through bufio.Scanner's    *)
(* line splitting, a query through strings.Split.  The file system is a    *)
(* function from the existing paths to their entries.                      *)
(*                                                                         *)
(* Environment: every target path names an entry of an existing directory, *)
(* labels and paths hold no line terminator, and a WriteString call either *)
(* appends its whole argument or (registerFile's append only) fails having *)
(* appended nothing.                                                       *)
(***************************************************************************)
EXTENDS Integers, Sequences, FiniteSets, TLC

VARIABLES fs, last

vars == <<fs, last>>

-----------------------------------------------------------------------------
(* Characters and strings *)

LF == "\n"

CR == "\r"

Range(s) == {s[i] : i \in 1..Len(s)}

\* The places of the byte c in s.
Places(s, c) == {i \in 1..Len(s) : s[i] = c}

\* strings.Index for a one-byte separator; 0 when absent.
IndexOf(s, c) ==
  LET at == Places(s, c)
  IN  IF at = {} THEN 0 ELSE CHOOSE i \in at : \A j \in at : i <= j

\* strings.LastIndex for a one-byte separator; 0 when absent.
LastIndexOf(s, c) ==
  LET at == Places(s, c)
  IN  IF at = {} THEN 0 ELSE CHOOSE i \in at : \A j \in at : j <= i

IsPrefix(p, s) == Len(p) <= Len(s) /\ SubSeq(s, 1, Len(p)) = p

\* strings.Contains.
Contains(s, sub) ==
  \E i \in 0..(Len(s) - Len(sub)) : SubSeq(s, i + 1, i + Len(sub)) = sub

\* Byte values of the characters the model uses (ASCII).
Ord(c) ==
  CASE c = LF -> 10
    [] c = CR -> 13
    [] c = "(" -> 40
    [] c = "," -> 44
    [] c = "." -> 46
    [] c = "/" -> 47
    [] c = "1" -> 49
    [] c = "2" -> 50
    [] c = "a" -> 97
    [] c = "b" -> 98
    [] c = "c" -> 99
    [] c = "d" -> 100
    [] c = "o" -> 111
    [] c = "p" -> 112
    [] c = "t" -> 116
    [] c = "x" -> 120
    [] c = "y" -> 121
    [] c = "z" -> 122
    [] c = "|" -> 124

\* Go's string comparison: bytewise lexical order.
RECURSIVE StrLess(_, _)
StrLess(a, b) ==
  IF b = <<>> THEN FALSE
  ELSE IF a = <<>> THEN TRUE
  ELSE IF a[1] # b[1] THEN Ord(a[1]) < Ord(b[1])
  ELSE StrLess(Tail(a), Tail(b))

\* strings.Split(s, sep) for a one-byte sep: always at least one field.
RECURSIVE Split(_, _)
Split(s, sep) ==
  LET i == IndexOf(s, sep)
  IN  IF i = 0 THEN <<s>>
      ELSE <<SubSeq(s, 1, i - 1)>> \o Split(SubSeq(s, i + 1, Len(s)), sep)

\* bufio's dropCR: one trailing carriage return is removed.
DropCR(s) == IF Len(s) > 0 /\ s[Len(s)] = CR THEN SubSeq(s, 1, Len(s) - 1) ELSE s

\* bufio.ScanLines over the whole content: the tokens scanner.Text() yields.
RECURSIVE ScanLines(_)
ScanLines(data) ==
  IF data = <<>> THEN <<>>
  ELSE LET i == IndexOf(data, LF)
       IN  IF i = 0 THEN <<DropCR(data)>>
           ELSE <<DropCR(SubSeq(data, 1, i - 1))>>
                  \o ScanLines(SubSeq(data, i + 1, Len(data)))

-----------------------------------------------------------------------------
(* The file system *)

\* The registry's fixed name.
DB == <<".", "c", "a", "t", "o", "d", "b">>

\* The suffix of a snapshot's name.
CopyExt == <<".", "c", "o", "p", "y">>

\* The working directory.
Dot == <<".">>

Exists(f, p) == p = Dot \/ p \in DOMAIN f

IsDir(f, p) == p = Dot \/ (p \in DOMAIN f /\ f[p].dir)

File(data) == [dir |-> FALSE, data |-> data]

Directory == [dir |-> TRUE, data |-> <<>>]

Put(f, p, e) == (p :> e) @@ f

\* The lines of the registry as a scan yields them; none when it is missing.
Registry(f) == IF DB \in DOMAIN f /\ ~f[DB].dir THEN ScanLines(f[DB].data) ELSE <<>>

-----------------------------------------------------------------------------
(* Category List Store *)

\* for _, category := range categories { f.WriteString(category + "\n") }
RECURSIVE WriteLines(_, _)
WriteLines(data, lines) ==
  IF lines = <<>> THEN data
  ELSE WriteLines(data \o Head(lines) \o <<LF>>, Tail(lines))

\* CreateCategory without O_EXCL: an existing file is overwritten.
CreateCategoryOverwriting(f, categories, fileName) ==
  [fs |-> Put(f, fileName, File(WriteLines(<<>>, categories))),
   ok |-> TRUE, err |-> "nil"]

CreateCategory(f, categories, fileName) ==
  IF Exists(f, fileName)
    THEN [fs |-> f, ok |-> FALSE, err |-> "file already exists"]
    ELSE [fs |-> Put(f, fileName, File(WriteLines(<<>>, categories))),
          ok |-> TRUE, err |-> "nil"]

\* os.Open: only a missing path fails.
checkFileExists(f, filename) ==
  IF Exists(f, filename) THEN "nil" ELSE "file does not exist"

\* The scan loop dropping only the first line equal to the label.
RECURSIVE KeepOthersAfterFirst(_, _)
KeepOthersAfterFirst(lines, categoryToRemove) ==
  IF lines = <<>> THEN <<>>
  ELSE IF Head(lines) # categoryToRemove
    THEN <<Head(lines)>> \o KeepOthersAfterFirst(Tail(lines), categoryToRemove)
    ELSE Tail(lines)

\* The scan loop of DeleteCategory: the lines kept, in order.
RECURSIVE KeepOthers(_, _)
KeepOthers(lines, categoryToRemove) ==
  IF lines = <<>> THEN <<>>
  ELSE IF Head(lines) # categoryToRemove
    THEN <<Head(lines)>> \o KeepOthers(Tail(lines), categoryToRemove)
    ELSE KeepOthers(Tail(lines), categoryToRemove)

DeleteCategory(f, categoryToRemove, fileName) ==
  IF checkFileExists(f, fileName) # "nil"
    THEN [fs |-> f, ok |-> FALSE, err |-> checkFileExists(f, fileName)]
  ELSE IF IsDir(f, fileName)
    THEN [fs |-> f, ok |-> FALSE, err |-> "read: is a directory"]
  ELSE LET categories == KeepOthers(ScanLines(f[fileName].data), categoryToRemove)
       IN  [fs |-> Put(f, fileName, File(WriteLines(<<>>, categories))),
            ok |-> TRUE, err |-> "nil"]

readFile(f, fileName) ==
  IF ~Exists(f, fileName)
    THEN [lines |-> <<>>, err |-> "open: no such file or directory"]
  ELSE IF IsDir(f, fileName)
    THEN [lines |-> <<>>, err |-> "read: is a directory"]
  ELSE [lines |-> ScanLines(f[fileName].data), err |-> "nil"]

-----------------------------------------------------------------------------
(* Record Formatter *)

\* The loop building cat: the categories joined by ",".
RECURSIVE JoinCategories(_)
JoinCategories(categories) ==
  IF categories = <<>> THEN <<>>
  ELSE IF Len(categories) = 1 THEN Head(categories)
  ELSE Head(categories) \o <<",">> \o JoinCategories(Tail(categories))

\* now stands for time.Now().Format(time.RFC3339), read by the caller.
format(path, categories, separator, now) ==
  LET sep == IF separator = <<>> THEN <<"|">> ELSE separator
  IN  path \o sep \o JoinCategories(categories) \o sep \o now

-----------------------------------------------------------------------------
(* Registration Workflow *)

\* os.OpenFile(".catodb", O_APPEND|O_WRONLY): no O_CREATE, and a directory
\* cannot be opened for writing.
OpenRegistryForAppend(f) == DB \in DOMAIN f /\ ~f[DB].dir

\* registerFile opening the registry with O_TRUNC instead of O_APPEND.
registerFileTruncating(f, fileName, categories, copy, now, writeFails) ==
  LET formatted == format(fileName, categories, <<>>, now)
      destinationFile == fileName \o CopyExt
  IN  IF checkFileExists(f, fileName) # "nil"
        THEN [fs |-> f, ok |-> FALSE, err |-> checkFileExists(f, fileName)]
      ELSE IF ~OpenRegistryForAppend(f)
        THEN [fs |-> f, ok |-> FALSE, err |-> "failed to open .catodb for writing"]
      ELSE IF copy /\ IsDir(f, destinationFile)
        THEN [fs |-> Put(f, DB, File(<<>>)), ok |-> FALSE,
              err |-> "failed to create copy of file"]
      ELSE IF copy /\ IsDir(f, fileName)
        THEN [fs |-> Put(Put(f, DB, File(<<>>)), destinationFile, File(<<>>)),
              ok |-> FALSE, err |-> "failed to copy file"]
      ELSE LET g == IF copy THEN Put(f, destinationFile, File(f[fileName].data))
                    ELSE f
           IN  IF writeFails
                 THEN [fs |-> Put(g, DB, File(<<>>)), ok |-> FALSE,
                       err |-> "failed to write to .catodb"]
                 ELSE [fs |-> Put(g, DB, File(formatted \o <<LF>>)),
                       ok |-> TRUE, err |-> "nil"]

\* registerFile writing the record before it makes the snapshot.
registerFileWritingFirst(f, fileName, categories, copy, now, writeFails) ==
  LET formatted == format(fileName, categories, <<>>, now)
      destinationFile == fileName \o CopyExt
  IN  IF checkFileExists(f, fileName) # "nil"
        THEN [fs |-> f, ok |-> FALSE, err |-> checkFileExists(f, fileName)]
      ELSE IF ~OpenRegistryForAppend(f)
        THEN [fs |-> f, ok |-> FALSE, err |-> "failed to open .catodb for writing"]
      ELSE IF writeFails
        THEN [fs |-> f, ok |-> FALSE, err |-> "failed to write to .catodb"]
      ELSE LET g == Put(f, DB, File(f[DB].data \o formatted \o <<LF>>))
           IN  IF copy /\ IsDir(g, destinationFile)
                 THEN [fs |-> g, ok |-> FALSE, err |-> "failed to create copy of file"]
               ELSE IF copy /\ IsDir(g, fileName)
                 THEN [fs |-> Put(g, destinationFile, File(<<>>)),
                       ok |-> FALSE, err |-> "failed to copy file"]
               ELSE [fs |-> IF copy
                              THEN Put(g, destinationFile, File(g[fileName].data))
                              ELSE g,
                     ok |-> TRUE, err |-> "nil"]

\* writeFails: db.WriteString returns an error (having appended nothing).
registerFile(f, fileName, categories, copy, now, writeFails) ==
  LET formatted == format(fileName, categories, <<>>, now)
      destinationFile == fileName \o CopyExt
  IN  IF checkFileExists(f, fileName) # "nil"
        THEN [fs |-> f, ok |-> FALSE, err |-> checkFileExists(f, fileName)]
      ELSE IF ~OpenRegistryForAppend(f)
        THEN [fs |-> f, ok |-> FALSE, err |-> "failed to open .catodb for writing"]
      ELSE IF copy /\ IsDir(f, destinationFile)
        THEN [fs |-> f, ok |-> FALSE, err |-> "failed to create copy of file"]
      ELSE IF copy /\ IsDir(f, fileName)
        THEN [fs |-> Put(f, destinationFile, File(<<>>)),
              ok |-> FALSE, err |-> "failed to copy file"]
      ELSE LET g == IF copy THEN Put(f, destinationFile, File(f[fileName].data))
                    ELSE f
           IN  IF writeFails
                 THEN [fs |-> g, ok |-> FALSE, err |-> "failed to write to .catodb"]
                 ELSE [fs |-> Put(g, DB, File(g[DB].data \o formatted \o <<LF>>)),
                       ok |-> TRUE, err |-> "nil"]

\* regexp.Compile on the patterns of the model: literal characters and the
\* wildcard "."; an unclosed "(" does not compile.
CompileOk(regex) == "(" \notin Range(regex)

\* re.MatchString: an unanchored match; "." matches any character but "\n".
MatchString(regex, s) ==
  \E i \in 0..(Len(s) - Len(regex)) :
    \A k \in 1..Len(regex) :
      \/ regex[k] = s[i + k]
      \/ regex[k] = "." /\ s[i + k] # LF

\* info.Name(): the last element of the path.
Base(path) == SubSeq(path, LastIndexOf(path, "/") + 1, Len(path))

\* The directory holding path.
DirOf(path) ==
  LET i == LastIndexOf(path, "/")
  IN  IF i = 0 THEN Dot ELSE SubSeq(path, 1, i - 1)

\* filepath.Join(dir, name), cleaned.
Join(dir, name) == IF dir = Dot THEN name ELSE dir \o <<"/">> \o name

\* sort.Strings on a set of names.
RECURSIVE SortStrings(_)
SortStrings(S) ==
  IF S = {} THEN <<>>
  ELSE LET m == CHOOSE x \in S : \A y \in S \ {x} : StrLess(x, y)
       IN  <<m>> \o SortStrings(S \ {m})

\* filepath's readDirNames: the sorted names of a directory's entries.
readDirNames(f, dir) == SortStrings({Base(q) : q \in {r \in DOMAIN f : DirOf(r) = dir}})

\* A walk that lists a directory's entries without descending into them.
walkOneLevel(f, path) ==
  IF IsDir(f, path)
    THEN LET names == readDirNames(f, path)
         IN  <<path>> \o [i \in 1..Len(names) |-> Join(path, names[i])]
    ELSE <<path>>

\* filepath.Walk's order of visits: a directory, then its entries by name,
\* each entry's subtree before the next entry.
RECURSIVE walk(_, _)
RECURSIVE walkNames(_, _, _, _)
walk(f, path) ==
  IF IsDir(f, path)
    THEN LET names == readDirNames(f, path)
         IN  <<path>> \o walkNames(f, path, names, 1)
    ELSE <<path>>

\* for _, name := range names, from the i-th name on.
walkNames(f, dir, names, i) ==
  IF i > Len(names) THEN <<>>
  ELSE walk(f, Join(dir, names[i])) \o walkNames(f, dir, names, i + 1)

\* The walk function applied along the visits.  A snapshot made during the
\* walk is a new sibling of the file being visited, in a directory whose names
\* were read before: it is not visited, so the visits are those of the tree the
\* call found.  nows[k] is the clock read for the k-th matching file; failAt is
\* the matching file whose registry write fails (0: none).
RECURSIVE visitContinuing(_, _, _, _, _, _)
RECURSIVE visit(_, _, _, _, _, _)
\* The walk function skipping a file whose registration fails and going on,
\* the error being reported at the end.
visitContinuing(f, paths, regex, registeredFiles, nows, failAt) ==
  IF paths = <<>> THEN [fs |-> f, ret |-> registeredFiles, ok |-> TRUE, err |-> "nil"]
  ELSE LET path == Head(paths)
       IN  IF ~IsDir(f, path) /\ MatchString(regex, Base(path))
             THEN LET k == Len(registeredFiles) + 1
                      categories == readFile(f, path)
                      r == registerFile(f, path, categories.lines, TRUE, nows[k],
                                        failAt = k)
                      rest == visitContinuing(r.fs, Tail(paths), regex,
                                              Append(registeredFiles, path), nows,
                                              failAt)
                  IN  IF r.err # "nil"
                        THEN [fs |-> rest.fs, ret |-> <<>>, ok |-> FALSE, err |-> r.err]
                        ELSE rest
             ELSE visitContinuing(f, Tail(paths), regex, registeredFiles, nows, failAt)

visit(f, paths, regex, registeredFiles, nows, failAt) ==
  IF paths = <<>> THEN [fs |-> f, ret |-> registeredFiles, ok |-> TRUE, err |-> "nil"]
  ELSE LET path == Head(paths)
       IN  IF ~IsDir(f, path) /\ MatchString(regex, Base(path))
             THEN LET k == Len(registeredFiles) + 1
                      categories == readFile(f, path)
                      r == registerFile(f, path, categories.lines, TRUE, nows[k],
                                        failAt = k)
                  IN  IF categories.err # "nil"
                        THEN [fs |-> f, ret |-> <<>>, ok |-> FALSE,
                              err |-> categories.err]
                      ELSE IF r.err # "nil"
                        THEN [fs |-> r.fs, ret |-> <<>>, ok |-> FALSE, err |-> r.err]
                      ELSE visit(r.fs, Tail(paths), regex,
                                 Append(registeredFiles, path), nows, failAt)
             ELSE visit(f, Tail(paths), regex, registeredFiles, nows, failAt)

registerFiles(f, folder, regex, nows, failAt) ==
  IF ~CompileOk(regex)
    THEN [fs |-> f, ret |-> <<>>, ok |-> FALSE, err |-> "error parsing regexp"]
  ELSE IF ~Exists(f, folder)
    THEN [fs |-> f, ret |-> <<>>, ok |-> FALSE, err |-> "lstat: no such file or directory"]
  ELSE visit(f, walk(f, folder), regex, <<>>, nows, failAt)

-----------------------------------------------------------------------------
(* Query Engine *)

\* containsAll returning true as soon as one element is found.
containsAny(set, subset) ==
  LET setMap == Range(set)
  IN  \E i \in 1..Len(subset) : subset[i] \in setMap

\* containsAll: every element of subset is a key of the map built from set.
containsAll(set, subset) ==
  LET setMap == Range(set)
  IN  \A i \in 1..Len(subset) : subset[i] \in setMap

\* The scan loop of get over the registry's lines.
RECURSIVE getScan(_, _, _, _)
getScan(lines, regex, categories, matches) ==
  IF lines = <<>> THEN matches
  ELSE LET line == Head(lines)
           parts == Split(line, "|")
       IN  IF Len(parts) < 3
             THEN getScan(Tail(lines), regex, categories, matches)
           ELSE LET path == parts[1]
                    fileCategories == Split(parts[2], ",")
                IN  IF MatchString(regex, path) /\ containsAll(fileCategories, categories)
                      THEN getScan(Tail(lines), regex, categories, Append(matches, path))
                      ELSE getScan(Tail(lines), regex, categories, matches)

get(f, regex, categories) ==
  IF checkFileExists(f, DB) # "nil"
    THEN [ret |-> <<>>, ok |-> FALSE, err |-> checkFileExists(f, DB)]
  ELSE IF ~CompileOk(regex)
    THEN [ret |-> <<>>, ok |-> FALSE, err |-> "error parsing regexp"]
  ELSE IF f[DB].dir
    THEN [ret |-> <<>>, ok |-> FALSE, err |-> "read: is a directory"]
  ELSE [ret |-> getScan(ScanLines(f[DB].data), regex, categories, <<>>),
        ok |-> TRUE, err |-> "nil"]

-----------------------------------------------------------------------------
(* Bounds and inputs *)

\* The most lines the registry holds, under single and under bulk registration.
MaxRegistry == 2

MaxBulkRegistry == 3

\* The most entries the file system holds.
MaxEntries == 9

A == <<"a">>

B == <<"b">>

Z == <<"z">>

X == <<"x">>

D == <<"d">>

\* The file system the program starts in: a directory d holding a listing a
\* (written with CR LF line ends and no final line end), a directory ab and in
\* it a listing b; a directory named x.copy; no registry yet.
InitFS ==
  (D :> Directory)
    @@ (Join(D, A) :> File(<<"a", CR, LF, "b">>))
    @@ (Join(D, <<"a", "b">>) :> Directory)
    @@ (Join(Join(D, <<"a", "b">>), B) :> File(<<"b", LF>>))
    @@ ((X \o CopyExt) :> Directory)

NoCall ==
  [op |-> "init", path |-> <<>>, str |-> <<>>, cats |-> <<>>, copy |-> FALSE,
   nows |-> <<>>, fail |-> 0, ok |-> TRUE, err |-> "nil", ret |-> <<>>]

Init ==
  /\ fs = InitFS
  /\ last = [call |-> NoCall, pre |-> InitFS]

\* A call returns: the file system it leaves and what it returned.
Return(call, newfs) ==
  /\ \/ newfs = fs
     \/ /\ Cardinality(DOMAIN newfs) <= MaxEntries
        /\ Len(Registry(newfs)) <= (IF call.op = "registerFiles"
                                     THEN MaxBulkRegistry ELSE MaxRegistry)
  /\ fs' = newfs
  /\ last' = [call |-> call, pre |-> fs]

-----------------------------------------------------------------------------
(* The operations as calls *)

CreateCategoryCall(lists, targets) ==
  \E categories \in lists, fileName \in targets :
    \E r \in {CreateCategory(fs, categories, fileName)} :
      Return([NoCall EXCEPT !.op = "CreateCategory", !.path = fileName,
                            !.cats = categories, !.ok = r.ok, !.err = r.err],
             r.fs)

DeleteCategoryCall(labels, targets) ==
  \E categoryToRemove \in labels, fileName \in targets :
    \E r \in {DeleteCategory(fs, categoryToRemove, fileName)} :
      Return([NoCall EXCEPT !.op = "DeleteCategory", !.path = fileName,
                            !.str = categoryToRemove, !.ok = r.ok, !.err = r.err],
             r.fs)

registerFileCall(subjects, lists, times, faults) ==
  \E fileName \in subjects, categories \in lists, copy \in BOOLEAN,
     now \in times, writeFails \in faults :
    \E r \in {registerFile(fs, fileName, categories, copy, now, writeFails)} :
      Return([NoCall EXCEPT !.op = "registerFile", !.path = fileName,
                            !.cats = categories, !.copy = copy, !.nows = <<now>>,
                            !.fail = IF writeFails THEN 1 ELSE 0,
                            !.ok = r.ok, !.err = r.err],
             r.fs)

\* The number of files a walk of folder would register.
Matching(f, folder, regex) ==
  IF CompileOk(regex) /\ Exists(f, folder)
    THEN LET w == walk(f, folder)
         IN  Cardinality({i \in 1..Len(w) :
                            ~IsDir(f, w[i]) /\ MatchString(regex, Base(w[i]))})
    ELSE 0

\* The clock readings of a walk: one per matching file, never going back.
Readings(n, times) ==
  {nows \in [1..n -> times] :
     \A i \in 1..n, j \in 1..n : i < j => ~StrLess(nows[j], nows[i])}

registerFilesCall(folders, patterns, times) ==
  \E folder \in folders, regex \in patterns :
    \E n \in {Matching(fs, folder, regex)} :
      \E failAt \in 0..n, nows \in Readings(n, times) :
        \E r \in {registerFiles(fs, folder, regex, nows, failAt)} :
          Return([NoCall EXCEPT !.op = "registerFiles", !.path = folder,
                                !.str = regex, !.nows = nows, !.fail = failAt,
                                !.ok = r.ok, !.err = r.err, !.ret = r.ret],
                 r.fs)

getCall(patterns, lists) ==
  \E regex \in patterns, categories \in lists :
    \E r \in {get(fs, regex, categories)} :
      Return([NoCall EXCEPT !.op = "get", !.str = regex, !.cats = categories,
                            !.ok = r.ok, !.err = r.err, !.ret = r.ret],
             fs)

-----------------------------------------------------------------------------
(* The whole program: every operation, on a few inputs *)

T1 == <<"t", "1">>

T2 == <<"t", "2">>

\* The registry is set up empty, as the tests set it up.
Next ==
  \/ CreateCategoryCall({<<>>}, {DB})
  \/ CreateCategoryCall({<<A>>}, {X})
  \/ DeleteCategoryCall({A, <<"x", "|", "|", "t", "1">>}, {DB, X})
  \/ registerFileCall({X, Z}, {<<>>, <<Z>>}, {T1}, {FALSE})
  \/ registerFilesCall({D}, {A}, {T1})
  \/ getCall({<<>>, X}, {<<>>, <<Z>>})

Spec == Init /\ [][Next]_vars

(* Registration of single files *)

NextRegister ==
  \/ CreateCategoryCall({<<>>}, {DB, X})
  \/ registerFileCall({X, D, Z}, {<<>>, <<A, B>>}, {T1}, BOOLEAN)

SpecRegister == Init /\ [][NextRegister]_vars

(* Category listings *)

NextListing ==
  \/ CreateCategoryCall({<<>>, <<A>>, <<A, B, A>>, <<<<>>, B>>}, {X, Join(D, A)})
  \/ DeleteCategoryCall({A, B, <<>>}, {X, Join(D, A), D, Z})

SpecListing == Init /\ [][NextListing]_vars

(* Bulk registration *)

NextBulk ==
  \/ CreateCategoryCall({<<>>}, {DB, X})
  \/ registerFilesCall({D, Dot, Z, Join(D, A)}, {<<>>, A, <<"(">>}, {T1})

SpecBulk == Init /\ [][NextBulk]_vars

(* Queries: get applied to every small registry content *)

\* The most bytes of a registry a query is tried on.
MaxRegistryBytes == 7

GetBytes == {"a", "|", ",", LF}

Contents == UNION {[1..n -> GetBytes] : n \in 0..MaxRegistryBytes}

InitGet ==
  /\ fs \in {InitFS, Put(InitFS, DB, Directory)}
              \cup {Put(InitFS, DB, File(data)) : data \in Contents}
  /\ last = [call |-> NoCall, pre |-> fs]

\* A query changes nothing: one query per content and input reaches them all.
NextGet ==
  /\ last.call.op = "init"
  /\ getCall({<<>>, A, <<"(">>}, {<<>>, <<A>>, <<<<>>>>, <<A, <<>>>>})

SpecGet == InitGet /\ [][NextGet]_vars

-----------------------------------------------------------------------------
(* Claims about the category listings, under SpecListing *)

Listing(f, path) == ScanLines(f[path].data)

IsListing(f, path) == path \in DOMAIN f /\ ~f[path].dir

\* Every entry of f other than path is the same in g.
OthersUntouched(f, g, path) ==
  /\ DOMAIN g \ {path} = DOMAIN f \ {path}
  /\ \A q \in DOMAIN f \ {path} : g[q] = f[q]

\* C5: CreateCategory on a path that does not exist succeeds and the new
\* resource reads back as exactly the given labels, one per line, in order; on
\* a path that exists it fails with "file already exists" and changes nothing.
C5_CreateExclusive ==
  last.call.op = "CreateCategory" =>
    IF Exists(last.pre, last.call.path)
      THEN /\ ~last.call.ok
           /\ last.call.err = "file already exists"
           /\ fs = last.pre
      ELSE /\ last.call.ok
           /\ last.call.err = "nil"
           /\ IsListing(fs, last.call.path)
           /\ Listing(fs, last.call.path) = last.call.cats
           /\ OthersUntouched(last.pre, fs, last.call.path)

\* A second CreateCategory, with other labels, on a listing an earlier
\* CreateCategory made.
C5_Witness ==
  /\ last.call.op = "CreateCategory"
  /\ ~last.call.ok
  /\ last.call.path \notin DOMAIN InitFS
  /\ Listing(fs, last.call.path) # <<>>
  /\ Listing(fs, last.call.path) # last.call.cats

\* C6: DeleteCategory on an existing listing succeeds and leaves the lines
\* other than the label, all of them and in their order; deleting again
\* changes nothing more.
C6_DeleteFilters ==
  (last.call.op = "DeleteCategory" /\ IsListing(last.pre, last.call.path)) =>
    /\ last.call.ok
    /\ IsListing(fs, last.call.path)
    /\ Listing(fs, last.call.path)
         = SelectSeq(Listing(last.pre, last.call.path),
                     LAMBDA l : l # last.call.str)
    /\ (last.call.str \notin Range(Listing(last.pre, last.call.path))
          => Listing(fs, last.call.path) = Listing(last.pre, last.call.path))
    /\ LET again == DeleteCategory(fs, last.call.str, last.call.path)
       IN  again.ok /\ Listing(again.fs, last.call.path) = Listing(fs, last.call.path)
    /\ OthersUntouched(last.pre, fs, last.call.path)

\* A label that occurred twice, among other labels, was deleted.
C6_Witness ==
  /\ last.call.op = "DeleteCategory"
  /\ last.call.ok
  /\ Len(Listing(last.pre, last.call.path)) = Len(Listing(fs, last.call.path)) + 2
  /\ Listing(fs, last.call.path) # <<>>

-----------------------------------------------------------------------------
(* Claims about registerFile, under SpecRegister and Spec *)

\* The categories with a comma between neighbours, built from the right.
RECURSIVE CommaJoined(_)
CommaJoined(cats) ==
  IF cats = <<>> THEN <<>>
  ELSE IF Len(cats) = 1 THEN cats[1]
  ELSE CommaJoined(SubSeq(cats, 1, Len(cats) - 1)) \o <<",">> \o cats[Len(cats)]

RecordLine(path, cats, now) == path \o <<"|">> \o CommaJoined(cats) \o <<"|">> \o now

\* C3: a successful registerFile makes the registry one line longer, the new
\* last line being path|categories|timestamp, also for a subject that is
\* registered already.
C3_RegisterAppendsOneRecord ==
  (last.call.op = "registerFile" /\ last.call.ok) =>
    Registry(fs) = Append(Registry(last.pre),
                          RecordLine(last.call.path, last.call.cats, last.call.nows[1]))

\* The subject of the call had a record already, and now has two.
C3_Witness ==
  /\ last.call.op = "registerFile"
  /\ last.call.ok
  /\ Len(last.call.cats) = 2
  /\ Len(Registry(fs)) = 2
  /\ IsPrefix(last.call.path \o <<"|">>, Registry(fs)[1])
  /\ IsPrefix(last.call.path \o <<"|">>, Registry(fs)[2])

Bars(line) == {i \in 1..Len(line) : line[i] = "|"}

FirstBar(line) == CHOOSE i \in Bars(line) : \A j \in Bars(line) : i <= j

SecondBar(line) ==
  CHOOSE i \in Bars(line) \ {FirstBar(line)} :
    \A j \in Bars(line) \ {FirstBar(line)} : i <= j

PathField(line) == SubSeq(line, 1, FirstBar(line) - 1)

CategoryField(line) == SubSeq(line, FirstBar(line) + 1, SecondBar(line) - 1)

\* c is one of the comma-separated items of field.
HasCategory(field, c) ==
  /\ "," \notin Range(c)
  /\ Contains(<<",">> \o field \o <<",">>, <<",">> \o c \o <<",">>)

Selected(line, regex, required) ==
  /\ Cardinality(Bars(line)) >= 2
  /\ MatchString(regex, PathField(line))
  /\ \A c \in Range(required) : HasCategory(CategoryField(line), c)

ExpectedMatches(lines, regex, required) ==
  LET chosen == SelectSeq(lines, LAMBDA l : Selected(l, regex, required))
  IN  [i \in 1..Len(chosen) |-> PathField(chosen[i])]

\* C4 (under SpecGet): on any registry content and any compiling pattern, get
\* returns the path field of each line that has at least three fields, whose
\* path matches and whose category field holds every required category, in
\* registry order with duplicates; other lines are skipped without error.
C4_GetSelects ==
  (last.call.op = "get" /\ IsListing(last.pre, DB) /\ CompileOk(last.call.str)) =>
    /\ last.call.ok
    /\ last.call.err = "nil"
    /\ last.call.ret
         = ExpectedMatches(Registry(last.pre), last.call.str, last.call.cats)
    /\ fs = last.pre

\* The same path returned twice, for a required category, one line skipped.
C4_Witness ==
  /\ last.call.op = "get"
  /\ last.call.ok
  /\ last.call.cats # <<>>
  /\ Len(Registry(last.pre)) = 3
  /\ Len(last.call.ret) = 2
  /\ last.call.ret[1] = last.call.ret[2]

\* C1 (as claimed): the registry's lines before a call are a prefix of its
\* lines after it, whatever the call and its target path.
C1_RegistryAppendOnly == IsPrefix(Registry(last.pre), Registry(fs))

\* The labels of every listing of the file system: the largest set a caller
\* could take as its reference category set.
KnownCategories(f) ==
  UNION {Range(Listing(f, p)) : p \in {q \in DOMAIN f : ~f[q].dir /\ q # DB}}

\* C2 (as claimed): registerFile for an existing subject with a category that
\* no reference set holds fails with "some categories do not exist" and
\* appends nothing.
C2_UnknownCategoryRejected ==
  ( /\ last.call.op = "registerFile"
    /\ Exists(last.pre, last.call.path)
    /\ OpenRegistryForAppend(last.pre)
    /\ \E i \in 1..Len(last.call.cats) :
         last.call.cats[i] \notin KnownCategories(last.pre) ) =>
    /\ ~last.call.ok
    /\ last.call.err = "some categories do not exist"
    /\ Registry(fs) = Registry(last.pre)

\* C7 (as claimed): the line a successful registerFile appends splits, by
\* get's rule, into the registered path and the registered category set.
C7_RoundTrip ==
  (last.call.op = "registerFile" /\ last.call.ok) =>
    LET line == Registry(fs)[Len(Registry(fs))]
        parts == Split(line, "|")
    IN  /\ Len(parts) >= 3
        /\ parts[1] = last.call.path
        /\ Range(Split(parts[2], ",")) = Range(last.call.cats)

-----------------------------------------------------------------------------
(* Claims about registerFiles, under SpecBulk *)

Parts(path) == Split(path, "/")

\* The entries of f at or below root.
Under(f, root) ==
  {p \in DOMAIN f : root = Dot \/ p = root \/ IsPrefix(root \o <<"/">>, p)}

\* The files a bulk registration is to register.
Candidates(f, root, regex) ==
  {p \in Under(f, root) : ~f[p].dir /\ MatchString(regex, Parts(p)[Len(Parts(p))])}

\* Traversal order: a directory before what it holds, and the entries of a
\* directory by name.
RECURSIVE PartsBefore(_, _)
PartsBefore(ps, qs) ==
  IF ps = <<>> THEN qs # <<>>
  ELSE IF qs = <<>> THEN FALSE
  ELSE IF Head(ps) = Head(qs) THEN PartsBefore(Tail(ps), Tail(qs))
  ELSE StrLess(Head(ps), Head(qs))

TraversalBefore(p, q) == PartsBefore(Parts(p), Parts(q))

RECURSIVE InTraversalOrder(_)
InTraversalOrder(S) ==
  IF S = {} THEN <<>>
  ELSE LET m == CHOOSE p \in S : \A q \in S \ {p} : TraversalBefore(p, q)
       IN  <<m>> \o InTraversalOrder(S \ {m})

\* The categories bulk registration read for the i-th new record: the file's
\* own lines (for the registry itself, its lines before that record).
CategoriesRead(i) ==
  LET path == last.call.ret[i]
  IN  IF path = DB
        THEN SubSeq(Registry(fs), 1, Len(Registry(last.pre)) + i - 1)
        ELSE Listing(fs, path)

\* C9: a registerFiles that succeeds returns the non-directory entries under
\* the root whose base name matches, each once, in traversal order, and has
\* appended one record per returned path, in that order.
C9_BulkRegistersMatching ==
  (last.call.op = "registerFiles" /\ last.call.ok) =>
    LET ret == last.call.ret
        before == Registry(last.pre)
        after == Registry(fs)
    IN  /\ ret = InTraversalOrder(Candidates(last.pre, last.call.path, last.call.str))
        /\ Len(ret) = Cardinality(Range(ret))
        /\ Len(after) = Len(before) + Len(ret)
        /\ IsPrefix(before, after)
        /\ \A i \in 1..Len(ret) :
             after[Len(before) + i]
               = RecordLine(ret[i], CategoriesRead(i), last.call.nows[i])

\* A walk that registered files of two levels and passed over a directory
\* and a file whose names do not match.
C9_Witness ==
  /\ last.call.op = "registerFiles"
  /\ last.call.ok
  /\ last.call.str # <<>>
  /\ Len(last.call.ret) >= 2
  /\ \E i \in 1..Len(last.call.ret) : Len(Parts(last.call.ret[i])) = 2
  /\ \E p \in Under(last.pre, last.call.path) :
       ~last.pre[p].dir /\ p \notin Range(last.call.ret)
  /\ \E p \in Under(last.pre, last.call.path) :
       last.pre[p].dir /\ MatchString(last.call.str, Base(p))

\* The entry at path is the same in f and g (or missing in both).
SameEntry(f, g, path) ==
  IF path \in DOMAIN f THEN path \in DOMAIN g /\ g[path] = f[path]
  ELSE path \notin DOMAIN g

\* C10: when reading or registering the k-th matching file fails, registerFiles
\* returns the error and no paths, the records of the matching files before
\* the k-th stay in the registry, and no later matching file is registered
\* or snapshotted.
C10_BulkFailsFast ==
  ( /\ last.call.op = "registerFiles"
    /\ ~last.call.ok
    /\ CompileOk(last.call.str)
    /\ Exists(last.pre, last.call.path) ) =>
    LET matching == InTraversalOrder(Candidates(last.pre, last.call.path,
                                                last.call.str))
        before == Registry(last.pre)
        after == Registry(fs)
        k == Len(after) - Len(before) + 1
    IN  /\ last.call.ret = <<>>
        /\ last.call.err # "nil"
        /\ IsPrefix(before, after)
        /\ k \in 1..Len(matching)
        /\ \A i \in 1..(k - 1) :
             /\ IsPrefix(matching[i] \o <<"|">>, after[Len(before) + i])
             /\ IsListing(fs, matching[i] \o CopyExt)
        /\ \A j \in (k + 1)..Len(matching) :
             SameEntry(last.pre, fs, matching[j] \o CopyExt)

\* The second of three matching files failed: one record stays, the third
\* file has no snapshot.
C10_Witness ==
  /\ last.call.op = "registerFiles"
  /\ ~last.call.ok
  /\ Cardinality(Candidates(last.pre, last.call.path, last.call.str)) >= 3
  /\ Len(Registry(fs)) = Len(Registry(last.pre)) + 1
  /\ \E p \in Candidates(last.pre, last.call.path, last.call.str) :
       (p \o CopyExt) \notin DOMAIN fs

====
